---- MODULE Spec2Model ----
(***************************************************************************)
(* Model of the thread simulator's synchronization primitives              *)
(* (synchronization.py: Semaphore, Monitor) and of the threading-model     *)
(* drivers (models.py: many_to_one, one_to_many, many_to_many).            *)
(*                                                                         *)
(* A call in flight is modelled by a position per thread object: wpc[t] is *)
(* the position of the Semaphore.wait(t) call, mpc[t] the position of the  *)
(* Monitor.enter(t)/exit(t) call.  The internal lock of each primitive is  *)
(* a variable, so that atomicity of a body follows from the lock and not   *)
(* from the grain of the model.                                            *)
(***************************************************************************)
EXTENDS Integers, Sequences, FiniteSets, TLC

VARIABLES
    state,          \* thread.state of every thread object
    count,          \* Semaphore.count, per semaphore
    queue,          \* Semaphore.queue, per semaphore
    semLock,        \* Semaphore.lock, per semaphore: holder or None
    msg_queue,      \* the event sink shared by the semaphores
    sink,           \* whether a sink was passed to Semaphore(count, queue)
    gate,           \* the semaphore a thread's calls are made on
    wpc,            \* position of the Semaphore.wait(t) call in flight
    mlock,          \* Monitor.lock: holder or None
    waiting_queue,  \* Monitor.waiting_queue
    cond,           \* the waiters of Monitor.condition, in wait() order
    mpc,            \* position of the Monitor.enter(t)/exit(t) call in flight
    model,          \* which driver of models.py runs ("none": primitives only)
    mainpc,         \* position of the driver function
    mi,             \* the driver's loop index
    wk,             \* position of every worker of the driver
    hist_last,      \* the last entry of thread.history ("none": no entry yet)
    phase,          \* the simulator's lifecycle phase
    current_time,   \* simulator.current_time, in tenths of a second
    registry,       \* simulator.threads: the ids of the registered threads
    progress,       \* thread.progress
    ci,             \* the loop index i of thread_function's critical section
    semClass,       \* the class of the semaphore handed to thread_function
    upc             \* position of every worker running thread_function

vars == <<state, count, queue, semLock, msg_queue, sink, gate, wpc,
          mlock, waiting_queue, cond, mpc, model, mainpc, mi, wk,
          hist_last, phase, current_time, registry, progress, ci, semClass, upc>>

semVars == <<count, queue, semLock, msg_queue, sink, gate, wpc>>
monVars == <<mlock, waiting_queue, cond, mpc>>
drvVars == <<model, mainpc, mi>>
uiVars == <<phase, current_time, registry, progress, ci, semClass>>

(***************************************************************************)
(* Bounds                                                                  *)
(***************************************************************************)
NumThreads == 3      \* thread objects of the primitives' specifications
MaxInitCount == 2    \* largest initial count of the semaphore
MaxEvents == 5       \* wait/signal calls recorded by the sink
MonThreads == 2      \* thread objects of the monitor's specification
MaxQueue == 2        \* cap of Semaphore.queue when no sink bounds the run
MaxCount == 1        \* cap of Semaphore.count when no sink bounds the run
MaxWorkers == 4      \* largest num_threads of a driver

None == -1

ThreadState == {"NEW", "READY", "RUNNING", "BLOCKED", "TERMINATED"}

Threads == DOMAIN state
Sems == DOMAIN count

Min(a, b) == IF a < b THEN a ELSE b

(***************************************************************************)
(* Thread.set_state: TERMINATED is sealed, any other state is overwritten. *)
(***************************************************************************)
SetState(st, t, s) ==
    IF st[t] = "TERMINATED" THEN st ELSE [st EXCEPT ![t] = s]

\* the history entry set_state appends with the transition
HistWrite(h, st, t, s) ==
    IF st[t] = "TERMINATED" THEN h ELSE [h EXCEPT ![t] = s]

(***************************************************************************)
(* Events put on the sink                                                  *)
(***************************************************************************)
CreatedEvent(s, c) == [type |-> "semaphore_created", sem_id |-> s, count |-> c]
WaitEvent(t, s, ok) ==
    [type |-> "semaphore_wait", thread_id |-> t, sem_id |-> s, success |-> ok]
SignalEvent(s, t) == [type |-> "semaphore_signal", sem_id |-> s, thread_id |-> t]

\* a sink that hands out the newest event first
PutFront(ev) == IF sink THEN <<ev>> \o msg_queue ELSE msg_queue

\* lines 12-13, 26-27, 36-37, 51-52, 59-60: if self.msg_queue: put(...)
Put(ev) == IF sink THEN Append(msg_queue, ev) ELSE msg_queue

\* wait calls in flight
InFlight == Cardinality({t \in Threads : wpc[t] # "idle"})

\* The primitives' specifications bound the number of calls: by the length of
\* the sink when there is one, by the caps of queue and count otherwise.
MayCallWait(t) ==
    IF sink THEN Len(msg_queue) - 1 + InFlight < MaxEvents
    ELSE Len(queue[gate[t]]) + InFlight < MaxQueue

MayCallSignal(s) ==
    IF sink THEN Len(msg_queue) - 1 + InFlight < MaxEvents
    ELSE queue[s] # <<>> \/ count[s] < MaxCount

(***************************************************************************)
(* with self.lock: of a Semaphore                                          *)
(***************************************************************************)
\* a lock that excludes nobody
SemLockFreeAlways(s) == TRUE

SemLockFree(s) == semLock[s] = None

(***************************************************************************)
(* Semaphore.wait(thread)                                                  *)
(***************************************************************************)
\* the caller of wait: a client of the primitive, or a worker at its gate
WaitCaller(t) ==
    IF model = "none" THEN MayCallWait(t)
    ELSE IF model = "ui" THEN upc[t] = "call" /\ t \in registry /\ MayCallWait(t)
    ELSE wk[t] = "acquire" /\ semClass = "gate"

\* the caller's position once wait has returned
WaitReturn(t) ==
    IF model \in {"none", "ui"} THEN wk ELSE [wk EXCEPT ![t] = "sleep"]

\* the position of thread_function once wait has returned, with the value
\* returned: synchronization.Semaphore.wait has no return statement and yields
\* None; the simulator's own semaphore reports its outcome
UiReturn(t, ok) ==
    IF model # "ui" THEN upc
    ELSE IF semClass = "synchronization" THEN [upc EXCEPT ![t] = "ret_none"]
    ELSE [upc EXCEPT ![t] = IF ok THEN "ret_true" ELSE "ret_false"]

\* line 20 written as the assignment thread.state = READY of Monitor.enter
WaitReadyDirect(t) ==
    /\ wpc[t] = "idle"
    /\ WaitCaller(t)
    /\ state' = [state EXCEPT ![t] = "READY"]
    /\ wpc' = [wpc EXCEPT ![t] = "w22"]
    /\ UNCHANGED <<count, queue, semLock, msg_queue, sink, gate>>
    /\ UNCHANGED monVars
    /\ UNCHANGED <<drvVars, wk, uiVars, upc>>
    /\ hist_last' = [hist_last EXCEPT ![t] = "READY"]

\* line 20: thread.set_state(READY); line 21: sleep
WaitReady(t) ==
    /\ wpc[t] = "idle"
    /\ WaitCaller(t)
    /\ state' = SetState(state, t, "READY")
    /\ wpc' = [wpc EXCEPT ![t] = "w22"]
    /\ UNCHANGED <<count, queue, semLock, msg_queue, sink, gate>>
    /\ UNCHANGED monVars
    /\ UNCHANGED <<drvVars, wk, uiVars, upc>>
    /\ hist_last' = HistWrite(hist_last, state, t, "READY")

\* line 22: with self.lock
WaitLock(t) ==
    /\ wpc[t] = "w22"
    /\ SemLockFree(gate[t])
    /\ semLock' = [semLock EXCEPT ![gate[t]] = t]
    /\ wpc' = [wpc EXCEPT ![t] = "w23"]
    /\ UNCHANGED <<state, count, queue, msg_queue, sink, gate>>
    /\ UNCHANGED monVars
    /\ UNCHANGED <<drvVars, wk, uiVars, upc>>
    /\ UNCHANGED hist_last

\* the test of line 23 written as count >= 0
WaitCheckOffByOne(t) ==
    /\ wpc[t] = "w23"
    /\ wpc' = [wpc EXCEPT ![t] = IF count[gate[t]] >= 0 THEN "w24" ELSE "w34"]
    /\ UNCHANGED <<state, count, queue, semLock, msg_queue, sink, gate>>
    /\ UNCHANGED monVars
    /\ UNCHANGED <<drvVars, wk, uiVars, upc>>
    /\ UNCHANGED hist_last

\* line 23: if self.count > 0
WaitCheck(t) ==
    /\ wpc[t] = "w23"
    /\ wpc' = [wpc EXCEPT ![t] = IF count[gate[t]] > 0 THEN "w24" ELSE "w34"]
    /\ UNCHANGED <<state, count, queue, semLock, msg_queue, sink, gate>>
    /\ UNCHANGED monVars
    /\ UNCHANGED <<drvVars, wk, uiVars, upc>>
    /\ UNCHANGED hist_last

\* lines 24-32, and the release of the lock
WaitGrant(t) ==
    /\ wpc[t] = "w24"
    /\ count' = [count EXCEPT ![gate[t]] = @ - 1]
    /\ state' = SetState(state, t, "RUNNING")
    /\ msg_queue' = Put(WaitEvent(t, gate[t], TRUE))
    /\ semLock' = [semLock EXCEPT ![gate[t]] = None]
    /\ wpc' = [wpc EXCEPT ![t] = "idle"]
    /\ wk' = WaitReturn(t)
    /\ UNCHANGED <<queue, sink, gate>>
    /\ UNCHANGED monVars
    /\ UNCHANGED <<drvVars, uiVars>>
    /\ hist_last' = HistWrite(hist_last, state, t, "RUNNING")
    /\ upc' = UiReturn(t, TRUE)

\* lines 34-42, and the release of the lock; wait returns to its caller
WaitBlock(t) ==
    /\ wpc[t] = "w34"
    /\ state' = SetState(state, t, "BLOCKED")
    /\ queue' = [queue EXCEPT ![gate[t]] = Append(@, t)]
    /\ msg_queue' = Put(WaitEvent(t, gate[t], FALSE))
    /\ semLock' = [semLock EXCEPT ![gate[t]] = None]
    /\ wpc' = [wpc EXCEPT ![t] = "idle"]
    /\ wk' = WaitReturn(t)
    /\ UNCHANGED <<count, sink, gate>>
    /\ UNCHANGED monVars
    /\ UNCHANGED <<drvVars, uiVars>>
    /\ hist_last' = HistWrite(hist_last, state, t, "BLOCKED")
    /\ upc' = UiReturn(t, FALSE)

(***************************************************************************)
(* Semaphore.signal(): the whole body runs under the lock                  *)
(***************************************************************************)
\* queue.pop(): the newest waiter
PopLast(q) == Len(q)

\* queue.pop(0)
PopIndex(q) == 1

Popped(q) == q[PopIndex(q)]
Rest(q) == [i \in 1..(Len(q) - 1) |-> IF i < PopIndex(q) THEN q[i] ELSE q[i + 1]]

\* lines 47-56 with the count += 1 of line 58 added to the hand-off
SignalWakeAndIncrement(s) ==
    /\ SemLockFree(s)
    /\ queue[s] # <<>>
    /\ queue' = [queue EXCEPT ![s] = Rest(@)]
    /\ count' = [count EXCEPT ![s] = @ + 1]
    /\ state' = SetState(state, Popped(queue[s]), "TERMINATED")
    /\ msg_queue' = Put(SignalEvent(s, Popped(queue[s])))
    /\ UNCHANGED <<semLock, sink, gate, wpc>>
    /\ UNCHANGED monVars
    /\ hist_last' = HistWrite(hist_last, state, Popped(queue[s]), "TERMINATED")

\* lines 47-56
SignalWake(s) ==
    /\ SemLockFree(s)
    /\ queue[s] # <<>>
    /\ queue' = [queue EXCEPT ![s] = Rest(@)]
    /\ state' = SetState(state, Popped(queue[s]), "TERMINATED")
    /\ msg_queue' = Put(SignalEvent(s, Popped(queue[s])))
    /\ UNCHANGED <<count, semLock, sink, gate, wpc>>
    /\ UNCHANGED monVars
    /\ hist_last' = HistWrite(hist_last, state, Popped(queue[s]), "TERMINATED")

\* lines 58-64 without the test `if self.queue` of line 47
SignalIncrementUntested(s) ==
    /\ SemLockFree(s)
    /\ count' = [count EXCEPT ![s] = @ + 1]
    /\ msg_queue' = Put(SignalEvent(s, None))
    /\ UNCHANGED <<state, queue, semLock, sink, gate, wpc>>
    /\ UNCHANGED monVars
    /\ UNCHANGED hist_last

\* lines 57-64 of a binary semaphore: count saturates at 1
SignalIncrementBinary(s) ==
    /\ SemLockFree(s)
    /\ queue[s] = <<>>
    /\ count' = [count EXCEPT ![s] = IF @ < 1 THEN @ + 1 ELSE @]
    /\ msg_queue' = Put(SignalEvent(s, None))
    /\ UNCHANGED <<state, queue, semLock, sink, gate, wpc>>
    /\ UNCHANGED monVars
    /\ UNCHANGED hist_last

\* lines 57-64
SignalIncrement(s) ==
    /\ SemLockFree(s)
    /\ queue[s] = <<>>
    /\ count' = [count EXCEPT ![s] = @ + 1]
    /\ msg_queue' = Put(SignalEvent(s, None))
    /\ UNCHANGED <<state, queue, semLock, sink, gate, wpc>>
    /\ UNCHANGED monVars
    /\ UNCHANGED hist_last

\* signal() called by a client of the primitive
Signal(s) ==
    /\ model = "none"
    /\ MayCallSignal(s)
    /\ SignalWake(s) \/ SignalIncrement(s)
    /\ UNCHANGED <<drvVars, wk, uiVars, upc>>

(***************************************************************************)
(* The semaphore alone: Semaphore(c, sink) used by NumThreads threads      *)
(***************************************************************************)
InitMonitorIdle(T) ==
    /\ mlock = None
    /\ waiting_queue = <<>>
    /\ cond = <<>>
    /\ mpc = [t \in T |-> "out"]

InitHistory(T) == hist_last = [t \in T |-> "none"]

\* no simulator and no thread_function worker
InitNoUi(T) ==
    /\ phase = "none"
    /\ current_time = 0
    /\ registry = {}
    /\ progress = [t \in T |-> 0]
    /\ ci = [t \in T |-> 0]
    /\ semClass = "synchronization"
    /\ upc = [t \in T |-> "none"]

InitNoDriver(T) ==
    /\ model = "none"
    /\ mainpc = "none"
    /\ mi = 0
    /\ wk = [t \in T |-> "none"]

InitSem ==
    /\ state = [t \in 0..(NumThreads - 1) |-> "NEW"]
    /\ \E c \in 0..MaxInitCount :
         /\ count = [s \in {0} |-> c]
         /\ msg_queue = <<CreatedEvent(0, c)>>
    /\ queue = [s \in {0} |-> <<>>]
    /\ semLock = [s \in {0} |-> None]
    /\ sink = TRUE
    /\ gate = [t \in 0..(NumThreads - 1) |-> 0]
    /\ wpc = [t \in 0..(NumThreads - 1) |-> "idle"]
    /\ InitMonitorIdle(0..(NumThreads - 1))
    /\ InitNoDriver(0..(NumThreads - 1))
    /\ InitHistory(0..(NumThreads - 1))
    /\ InitNoUi(0..(NumThreads - 1))

NextSem ==
    \/ \E t \in Threads : WaitReady(t)
    \/ \E t \in Threads : WaitLock(t)
    \/ \E t \in Threads : WaitCheck(t)
    \/ \E t \in Threads : WaitGrant(t)
    \/ \E t \in Threads : WaitBlock(t)
    \/ \E s \in Sems : Signal(s)

SpecSem == InitSem /\ [][NextSem]_vars

(***************************************************************************)
(* Monitor.  enter and exit assign thread.state directly.                  *)
(***************************************************************************)
MonLockFree == mlock = None

\* line 74: thread.state = READY; line 75: sleep
EnterReady(t) ==
    /\ model = "none"
    /\ mpc[t] = "out"
    /\ state' = [state EXCEPT ![t] = "READY"]
    /\ mpc' = [mpc EXCEPT ![t] = "e76"]
    /\ UNCHANGED <<mlock, waiting_queue, cond>>
    /\ UNCHANGED semVars
    /\ UNCHANGED <<drvVars, wk, uiVars, upc>>
    /\ UNCHANGED hist_last

\* line 76: with self.lock
EnterLock(t) ==
    /\ mpc[t] = "e76"
    /\ MonLockFree
    /\ mlock' = t
    /\ mpc' = [mpc EXCEPT ![t] = "e77"]
    /\ UNCHANGED <<state, waiting_queue, cond>>
    /\ UNCHANGED semVars
    /\ UNCHANGED <<drvVars, wk, uiVars, upc>>
    /\ UNCHANGED hist_last

\* line 77: if thread.state == BLOCKED
EnterCheck(t) ==
    /\ mpc[t] = "e77"
    /\ mpc' = [mpc EXCEPT ![t] = IF state[t] = "BLOCKED" THEN "e78" ELSE "e81"]
    /\ UNCHANGED <<state, mlock, waiting_queue, cond>>
    /\ UNCHANGED semVars
    /\ UNCHANGED <<drvVars, wk, uiVars, upc>>
    /\ UNCHANGED hist_last

\* lines 78-80 with a condition.wait() that keeps the lock while it waits
EnterWaitKeepsLock(t) ==
    /\ mpc[t] = "e78"
    /\ waiting_queue' = Append(waiting_queue, t)
    /\ cond' = Append(cond, t)
    /\ mpc' = [mpc EXCEPT ![t] = "waiting"]
    /\ UNCHANGED <<state, mlock>>
    /\ UNCHANGED semVars
    /\ UNCHANGED <<drvVars, wk, uiVars, upc>>
    /\ UNCHANGED hist_last

\* lines 78-80: the caller joins waiting_queue, and condition.wait() makes it
\* a waiter of the condition and releases the lock
EnterWait(t) ==
    /\ mpc[t] = "e78"
    /\ waiting_queue' = Append(waiting_queue, t)
    /\ cond' = Append(cond, t)
    /\ mlock' = None
    /\ mpc' = [mpc EXCEPT ![t] = "waiting"]
    /\ UNCHANGED state
    /\ UNCHANGED semVars
    /\ UNCHANGED <<drvVars, wk, uiVars, upc>>
    /\ UNCHANGED hist_last

\* lines 80-83 for a notified waiter: condition.wait() returns once it has
\* the lock again, then thread.state = RUNNING and the lock is released
EnterResume(t) ==
    /\ mpc[t] = "notified"
    /\ MonLockFree
    /\ state' = [state EXCEPT ![t] = "RUNNING"]
    /\ mpc' = [mpc EXCEPT ![t] = "in"]
    /\ UNCHANGED <<mlock, waiting_queue, cond>>
    /\ UNCHANGED semVars
    /\ UNCHANGED <<drvVars, wk, uiVars, upc>>
    /\ UNCHANGED hist_last

\* lines 81-83 for a caller that did not wait, and the release of the lock
EnterRun(t) ==
    /\ mpc[t] = "e81"
    /\ state' = [state EXCEPT ![t] = "RUNNING"]
    /\ mlock' = None
    /\ mpc' = [mpc EXCEPT ![t] = "in"]
    /\ UNCHANGED <<waiting_queue, cond>>
    /\ UNCHANGED semVars
    /\ UNCHANGED <<drvVars, wk, uiVars, upc>>
    /\ UNCHANGED hist_last

\* a notify that wakes nobody
NotifyNobody(pcs) == pcs

\* condition.notify(): the first waiter of the condition, if any, is woken
Notify(pcs) ==
    IF cond = <<>> THEN pcs ELSE [pcs EXCEPT ![Head(cond)] = "notified"]

\* lines 85-91, the whole body under the lock; called by the thread that
\* returned from enter
Exit(t) ==
    /\ mpc[t] = "in"
    /\ MonLockFree
    /\ IF waiting_queue # <<>>
       THEN /\ waiting_queue' = Tail(waiting_queue)
            /\ state' = [state EXCEPT ![Head(waiting_queue)] = "BLOCKED"]
            /\ mpc' = [Notify(mpc) EXCEPT ![t] = "out"]
            /\ cond' = IF cond = <<>> THEN cond ELSE Tail(cond)
       ELSE /\ mpc' = [mpc EXCEPT ![t] = "out"]
            /\ UNCHANGED <<state, waiting_queue, cond>>
    /\ UNCHANGED mlock
    /\ UNCHANGED semVars
    /\ UNCHANGED <<drvVars, wk, uiVars, upc>>
    /\ UNCHANGED hist_last

\* lines 85-91 called for a thread that is not inside the monitor and has no
\* call in flight: the body is the same, no holder is tested
ExitNotHolder(t) ==
    /\ model = "none"
    /\ mpc[t] = "out"
    /\ MonLockFree
    /\ IF waiting_queue # <<>>
       THEN /\ waiting_queue' = Tail(waiting_queue)
            /\ state' = [state EXCEPT ![Head(waiting_queue)] = "BLOCKED"]
            /\ mpc' = Notify(mpc)
            /\ cond' = IF cond = <<>> THEN cond ELSE Tail(cond)
       ELSE UNCHANGED <<state, waiting_queue, cond, mpc>>
    /\ UNCHANGED mlock
    /\ UNCHANGED semVars
    /\ UNCHANGED <<drvVars, wk, uiVars, upc>>
    /\ UNCHANGED hist_last

(***************************************************************************)
(* The monitor, used by MonThreads threads that also wait on a semaphore   *)
(* created without a sink                                                  *)
(***************************************************************************)
InitMon ==
    /\ state = [t \in 0..(MonThreads - 1) |-> "NEW"]
    /\ count \in [{0} -> 0..MaxCount]
    /\ queue = [s \in {0} |-> <<>>]
    /\ semLock = [s \in {0} |-> None]
    /\ msg_queue = <<>>
    /\ sink = FALSE
    /\ gate = [t \in 0..(MonThreads - 1) |-> 0]
    /\ wpc = [t \in 0..(MonThreads - 1) |-> "idle"]
    /\ InitMonitorIdle(0..(MonThreads - 1))
    /\ InitNoDriver(0..(MonThreads - 1))
    /\ InitHistory(0..(MonThreads - 1))
    /\ InitNoUi(0..(MonThreads - 1))

NextMon ==
    \/ \E t \in Threads : EnterReady(t)
    \/ \E t \in Threads : EnterLock(t)
    \/ \E t \in Threads : EnterCheck(t)
    \/ \E t \in Threads : EnterWait(t)
    \/ \E t \in Threads : EnterResume(t)
    \/ \E t \in Threads : EnterRun(t)
    \/ \E t \in Threads : Exit(t)
    \/ \E t \in Threads : ExitNotHolder(t)
    \/ \E t \in Threads : WaitReady(t)
    \/ \E t \in Threads : WaitLock(t)
    \/ \E t \in Threads : WaitCheck(t)
    \/ \E t \in Threads : WaitGrant(t)
    \/ \E t \in Threads : WaitBlock(t)
    \/ \E s \in Sems : Signal(s)

SpecMon == InitMon /\ [][NextMon]_vars

\* t has returned from enter and has not called exit
Inside(t) == mpc[t] = "in"

(***************************************************************************)
(* C7: no two threads are inside the monitor at once.                      *)
(***************************************************************************)
C7_MonitorMutualExclusion == Cardinality({t \in Threads : Inside(t)}) <= 1

(***************************************************************************)
(* C8: a thread that calls enter while another thread holds entry is       *)
(* queued and BLOCKED: enter never takes its granting branch (line 81      *)
(* without having waited) while another thread is inside.                  *)
(***************************************************************************)
C8_EnterBlocksWhileHeld ==
    \A t \in Threads :
        mpc[t] = "e81" => ~(\E u \in Threads \ {t} : Inside(u))

(***************************************************************************)
(* C9: the waiter popped by exit is granted entry by that exit: it is      *)
(* RUNNING, not BLOCKED, from the moment it is popped and notified.        *)
(***************************************************************************)
C9_ExitGrantsRunning ==
    \A t \in Threads : mpc[t] = "notified" => state[t] = "RUNNING"

(***************************************************************************)
(* C10: waiters enter in arrival order and are not bypassed: no later      *)
(* arrival takes the granting branch of enter while a waiter is queued.    *)
(***************************************************************************)
C10_NoBypass ==
    \A t \in Threads : mpc[t] = "e81" => waiting_queue = <<>>

(***************************************************************************)
(* C11: exit called for a thread that does not hold entry mutates nothing: *)
(* the waiting queue, the holders and every thread's state are unchanged.  *)
(***************************************************************************)
C11_InvalidExitNoMutation ==
    [][(\E t \in Threads : ExitNotHolder(t))
          => /\ waiting_queue' = waiting_queue
             /\ state' = state
             /\ \A u \in Threads : Inside(u)' = Inside(u)]_vars

(***************************************************************************)
(* C12: TERMINATED is absorbing: no step of wait, signal, enter or exit    *)
(* changes the state of a thread that is TERMINATED.                       *)
(***************************************************************************)
C12_TerminatedAbsorbing ==
    [][\A t \in Threads : state[t] = "TERMINATED" => state'[t] = "TERMINATED"]_vars

(***************************************************************************)
(* C13: the history is written with every transition, so the last entry of *)
(* a thread's history is its current state (also after Monitor.enter and   *)
(* Monitor.exit), and no entry follows a TERMINATED entry.                 *)
(***************************************************************************)
C13_HistoryFollowsState ==
    \A t \in Threads :
        /\ state[t] # "NEW" => hist_last[t] = state[t]
        /\ hist_last[t] = "TERMINATED" => state[t] = "TERMINATED"

(***************************************************************************)
(* C15: every thread in a semaphore's wait queue is BLOCKED, also when a   *)
(* queued thread calls wait or Monitor.enter again.                        *)
(***************************************************************************)
C15_QueuedAreBlocked ==
    \A s \in Sems : \A i \in 1..Len(queue[s]) : state[queue[s][i]] = "BLOCKED"

(***************************************************************************)
(* models.py: many_to_one, one_to_many, many_to_many.  The gate of a       *)
(* worker is a Semaphore of synchronization.py, which offers wait and      *)
(* signal; the worker's acquire and release are its gate's wait and signal *)
(* and the worker goes on when the call returns.                           *)
(***************************************************************************)
\* line 49: min(num_threads, 3)
SchedulerCount == 3

num_threads == Cardinality(Threads)

\* lines 9, 49-50: the schedulers a driver creates
Schedulers(m, n) ==
    IF m = "many_to_one" THEN {0}
    ELSE IF m = "many_to_many" THEN 0..(Min(n, SchedulerCount) - 1)
    ELSE {}

\* line 55 written as schedulers[i]
GateOfIndex(m, n, i) ==
    IF m = "many_to_many" THEN i ELSE 0

\* line 55: schedulers[i % scheduler_count]; line 14: the one scheduler
GateOf(m, n, i) ==
    IF m = "many_to_many" THEN i % Min(n, SchedulerCount) ELSE 0

\* every driver passes its workers through a scheduler
GatedAll == model \in {"many_to_one", "one_to_many", "many_to_many"}

Gated == model \in {"many_to_one", "many_to_many"}

\* lines 13-16, 33-36, 54-58: t = threading.Thread(...); t.start()
Start ==
    /\ mainpc = "start"
    /\ mi < num_threads
    /\ wk' = [wk EXCEPT ![mi] = IF Gated THEN "acquire" ELSE "sleep"]
    /\ mi' = mi + 1
    /\ UNCHANGED <<state, model, mainpc>>
    /\ UNCHANGED semVars
    /\ UNCHANGED monVars
    /\ UNCHANGED <<uiVars, upc, hist_last>>

\* the end of the first loop
StartDone ==
    /\ mainpc = "start"
    /\ mi = num_threads
    /\ mainpc' = "join"
    /\ mi' = 0
    /\ UNCHANGED <<state, model, wk>>
    /\ UNCHANGED semVars
    /\ UNCHANGED monVars
    /\ UNCHANGED <<uiVars, upc, hist_last>>

\* lines 25, 44, 67: time.sleep(random.uniform(0.5, 1.5))
WorkerSleep(t) ==
    /\ wk[t] = "sleep"
    /\ wk' = [wk EXCEPT ![t] = IF Gated THEN "release" ELSE "done"]
    /\ UNCHANGED <<state, drvVars>>
    /\ UNCHANGED semVars
    /\ UNCHANGED monVars
    /\ UNCHANGED <<uiVars, upc, hist_last>>

\* lines 26, 68: scheduler.release()
WorkerRelease(t) ==
    /\ wk[t] = "release"
    /\ SignalWake(gate[t]) \/ SignalIncrement(gate[t])
    /\ wk' = [wk EXCEPT ![t] = "done"]
    /\ UNCHANGED <<drvVars, uiVars, upc>>

\* lines 24, 66: scheduler.acquire() on a synchronization.Semaphore, which
\* defines wait and signal only: AttributeError ends the worker
AcquireAttributeError(t) ==
    /\ wk[t] = "acquire"
    /\ semClass = "synchronization"
    /\ wk' = [wk EXCEPT ![t] = "raised"]
    /\ UNCHANGED <<state, drvVars>>
    /\ UNCHANGED semVars
    /\ UNCHANGED monVars
    /\ UNCHANGED <<uiVars, upc, hist_last>>

\* lines 18-19, 38-39, 60-61: t.join() returns once the worker has ended
Join ==
    /\ mainpc = "join"
    /\ mi < num_threads
    /\ wk[mi] \in {"done", "raised"}
    /\ mi' = mi + 1
    /\ UNCHANGED <<state, model, mainpc, wk>>
    /\ UNCHANGED semVars
    /\ UNCHANGED monVars
    /\ UNCHANGED <<uiVars, upc, hist_last>>

\* the driver returns
Return ==
    /\ mainpc = "join"
    /\ mi = num_threads
    /\ mainpc' = "returned"
    /\ UNCHANGED <<state, model, mi, wk>>
    /\ UNCHANGED semVars
    /\ UNCHANGED monVars
    /\ UNCHANGED <<uiVars, upc, hist_last>>

\* The gate of a driver is the Semaphore of line 4, whose class has no
\* acquire and no release ("synchronization"); the drivers are also run with
\* acquire and release taken as wait and signal ("gate")
GateClasses(m) ==
    IF m = "one_to_many" THEN {"synchronization"} ELSE {"synchronization", "gate"}

InitModels ==
    \E m \in {"many_to_one", "one_to_many", "many_to_many"}, n \in 0..MaxWorkers :
        /\ model = m
        /\ state = [t \in 0..(n - 1) |-> "NEW"]
        /\ count = [s \in Schedulers(m, n) |-> 1]
        /\ queue = [s \in Schedulers(m, n) |-> <<>>]
        /\ semLock = [s \in Schedulers(m, n) |-> None]
        /\ msg_queue = <<>>
        /\ sink = FALSE
        /\ gate = [t \in 0..(n - 1) |-> GateOf(m, n, t)]
        /\ wpc = [t \in 0..(n - 1) |-> "idle"]
        /\ InitMonitorIdle(0..(n - 1))
        /\ mainpc = "start"
        /\ mi = 0
        /\ wk = [t \in 0..(n - 1) |-> "unstarted"]
        /\ InitHistory(0..(n - 1))
        /\ phase = "none"
        /\ current_time = 0
        /\ registry = {}
        /\ progress = [t \in 0..(n - 1) |-> 0]
        /\ ci = [t \in 0..(n - 1) |-> 0]
        /\ semClass \in GateClasses(m)
        /\ upc = [t \in 0..(n - 1) |-> "none"]

NextModels ==
    \/ Start
    \/ StartDone
    \/ \E t \in Threads : WaitReady(t)
    \/ \E t \in Threads : WaitLock(t)
    \/ \E t \in Threads : WaitCheck(t)
    \/ \E t \in Threads : WaitGrant(t)
    \/ \E t \in Threads : WaitBlock(t)
    \/ \E t \in Threads : WorkerSleep(t)
    \/ \E t \in Threads : WorkerRelease(t)
    \/ \E t \in Threads : AcquireAttributeError(t)
    \/ Join
    \/ Return

SpecModels == InitModels /\ [][NextModels]_vars

\* t.start() hands every worker to the scheduler of the operating system and
\* main waits in t.join(): a step that stays possible is taken
FairSpecModels == SpecModels /\ WF_vars(NextModels)

\* the worker is past its gate: acquire has returned, release is not done
Admitted(t) == wk[t] \in {"sleep", "release"}

AdmittedAt(g) == {t \in Threads : Admitted(t) /\ gate[t] = g}

C16_OneToManyUngated ==
    model = "one_to_many" =>
        /\ Sems = {}
        /\ \A t \in Threads :
              /\ wk[t] \notin {"acquire", "release"}
              /\ wpc[t] = "idle"
              /\ wk[t] = "sleep" => ENABLED WorkerSleep(t)

\* all N workers are in their body at once
C16_Witness ==
    /\ model = "one_to_many"
    /\ num_threads = MaxWorkers
    /\ \A t \in Threads : wk[t] = "sleep"

Queued(t) == \E s \in Sems : \E i \in 1..Len(queue[s]) : queue[s][i] = t

IsWait(e) == e.type = "semaphore_wait"
IsEnqueue(e) == e.type = "semaphore_wait" /\ ~e.success
IsWake(e) == e.type = "semaphore_signal" /\ e.thread_id # None

RECURSIVE ThreadIds(_)
ThreadIds(es) ==
    IF es = <<>> THEN <<>> ELSE <<Head(es).thread_id>> \o ThreadIds(Tail(es))

\* the threads enqueued by wait, and the threads woken by signal, in order
Enqueued == ThreadIds(SelectSeq(msg_queue, IsEnqueue))
Woken == ThreadIds(SelectSeq(msg_queue, IsWake))

LastEvent == msg_queue[Len(msg_queue)]

\* a thread holds the lock exactly while it is inside the body of wait
InBody(t) == wpc[t] \in {"w23", "w24", "w34"}

(***************************************************************************)
(* C3: Semaphore.count is never negative, whatever the initial count and   *)
(* the interleaving of wait and signal.                                    *)
(***************************************************************************)
C3_CountNonNegative == \A s \in Sems : count[s] >= 0

\* the last unit was taken and a later wait found count = 0
C3_Witness ==
    /\ sink
    /\ count[0] = 0
    /\ \E i \in 1..Len(msg_queue) : IsWait(msg_queue[i]) /\ msg_queue[i].success
    /\ \E t \in Threads : wpc[t] = "w34"

(***************************************************************************)
(* C4: on Semaphore(1), when the first two calls are waits of two threads, *)
(* the first to take the lock succeeds (count 0, RUNNING, success=true)    *)
(* and the other is enqueued (BLOCKED, success=false); a thread inside the *)
(* body of wait holds the lock, so no other caller is inside it.           *)
(***************************************************************************)
WaitPair ==
    /\ sink
    /\ msg_queue[1].count = 1
    /\ Len(msg_queue) = 3
    /\ IsWait(msg_queue[2])
    /\ IsWait(msg_queue[3])
    /\ msg_queue[2].thread_id # msg_queue[3].thread_id

C4_ExactlyOneSucceeds ==
    /\ \A t \in Threads : InBody(t) => semLock[gate[t]] = t
    /\ WaitPair =>
         /\ msg_queue[2].success
         /\ ~msg_queue[3].success
         /\ count[0] = 0
         /\ queue[0] = <<msg_queue[3].thread_id>>
         /\ wpc[msg_queue[2].thread_id] = "idle"
              => state[msg_queue[2].thread_id] = "RUNNING"
         /\ wpc[msg_queue[3].thread_id] = "idle"
              => state[msg_queue[3].thread_id] = "BLOCKED"

C4_Witness ==
    /\ WaitPair
    /\ \A t \in Threads : wpc[t] = "idle"
    /\ state[msg_queue[2].thread_id] = "RUNNING"
    /\ state[msg_queue[3].thread_id] = "BLOCKED"

(***************************************************************************)
(* C5: a signal that finds the queue non-empty removes the oldest queued   *)
(* thread and leaves it RUNNING, with count unchanged.                     *)
(***************************************************************************)
C5_SignalGrantsRunning ==
    (sink /\ IsWake(LastEvent) /\ wpc[LastEvent.thread_id] = "idle")
        => state[LastEvent.thread_id] = "RUNNING"

(***************************************************************************)
(* C6: waiters leave the queue in arrival order: the threads woken so far, *)
(* followed by the threads still queued, are the enqueued threads in the   *)
(* order of their enqueueing.                                              *)
(***************************************************************************)
C6_FifoRelease == sink => Woken \o queue[0] = Enqueued

\* two different threads were queued together and both were woken
C6_Witness ==
    /\ sink
    /\ Len(Woken) >= 2
    /\ Woken[1] # Woken[2]
    /\ \E i, j \in 1..Len(msg_queue) :
         /\ i < j
         /\ IsEnqueue(msg_queue[i]) /\ IsEnqueue(msg_queue[j])
         /\ \A k \in i..j : ~IsWake(msg_queue[k])

(***************************************************************************)
(* ui.py: the simulator driven by the buttons of the window, and the       *)
(* workers that run thread_function.  The simulator keeps phase,           *)
(* current_time and the list threads (registry holds its valid indices).   *)
(* The semaphore handed to the workers is either a                         *)
(* synchronization.Semaphore or the simulator's own, which reports the     *)
(* outcome of wait and grants RUNNING to the waiter it pops.               *)
(***************************************************************************)
UiThreads == 2
MaxTicks == 2

\* line 605: for i in range(10)
CritIterations == 10

\* _on_start_simulation takes the branch "Resume paused simulation" when
\* is_running holds, lines 574 and 636-638: a paused simulator is running
is_running == phase # "STOPPED"

\* the value of `not sem.wait(...)` at line 601: None and False are falsy
Truthy(v) == v = "ret_true"

InCritical(t) == upc[t] \in {"for605", "sleep608"}

\* lines 590-631: reset, one process, one semaphore, the workers, start
StartSimulation ==
    /\ model = "ui"
    /\ ~is_running
    /\ \A t \in Threads : upc[t] = "none"
    /\ phase' = "RUNNING"
    /\ current_time' = 0
    /\ registry' = Threads
    /\ upc' = [t \in Threads |-> "call"]
    /\ UNCHANGED <<state, hist_last, progress, ci, semClass>>
    /\ UNCHANGED semVars
    /\ UNCHANGED monVars
    /\ UNCHANGED <<drvVars, wk>>

\* line 601: while not <value returned by sem.wait>
LoopTest(t) ==
    /\ upc[t] \in {"ret_true", "ret_false", "ret_none"}
    /\ upc' = [upc EXCEPT ![t] = IF Truthy(upc[t]) THEN "for605" ELSE "sleep602"]
    /\ UNCHANGED <<state, hist_last>>
    /\ UNCHANGED semVars
    /\ UNCHANGED monVars
    /\ UNCHANGED <<drvVars, wk, uiVars>>

\* line 602: time.sleep, then line 601 again
Backoff(t) ==
    /\ upc[t] = "sleep602"
    /\ upc' = [upc EXCEPT ![t] = "call"]
    /\ UNCHANGED <<state, hist_last>>
    /\ UNCHANGED semVars
    /\ UNCHANGED monVars
    /\ UNCHANGED <<drvVars, wk, uiVars>>

\* lines 605-607: the next i of range(10), and the test of is_running
CritTest(t) ==
    /\ upc[t] = "for605"
    /\ upc' = [upc EXCEPT ![t] =
                 IF ci[t] = CritIterations \/ ~is_running
                 THEN "signal612" ELSE "sleep608"]
    /\ UNCHANGED <<state, hist_last>>
    /\ UNCHANGED semVars
    /\ UNCHANGED monVars
    /\ UNCHANGED <<drvVars, wk, uiVars>>

\* lines 608-609: time.sleep, then threads[thread_id].progress = (i + 1) * 10
CritWork(t) ==
    /\ upc[t] = "sleep608"
    /\ t \in registry
    /\ progress' = [progress EXCEPT ![t] = (ci[t] + 1) * 10]
    /\ ci' = [ci EXCEPT ![t] = @ + 1]
    /\ upc' = [upc EXCEPT ![t] = "for605"]
    /\ UNCHANGED <<state, hist_last, phase, current_time, registry, semClass>>
    /\ UNCHANGED semVars
    /\ UNCHANGED monVars
    /\ UNCHANGED <<drvVars, wk>>

\* line 612: sem.signal(thread) of the simulator's semaphore: the oldest
\* waiter is popped and granted RUNNING, or count is incremented
UiSignal(t) ==
    /\ upc[t] = "signal612"
    /\ t \in registry
    /\ semClass = "simulator"
    /\ SemLockFree(gate[t])
    /\ IF queue[gate[t]] # <<>>
       THEN /\ queue' = [queue EXCEPT ![gate[t]] = Tail(@)]
            /\ state' = SetState(state, Head(queue[gate[t]]), "RUNNING")
            /\ hist_last' = HistWrite(hist_last, state, Head(queue[gate[t]]), "RUNNING")
            /\ UNCHANGED count
       ELSE /\ count' = [count EXCEPT ![gate[t]] = @ + 1]
            /\ UNCHANGED <<state, hist_last, queue>>
    /\ upc' = [upc EXCEPT ![t] = "done"]
    /\ UNCHANGED <<semLock, msg_queue, sink, gate, wpc>>
    /\ UNCHANGED monVars
    /\ UNCHANGED <<drvVars, wk, uiVars>>

\* lines 601, 609, 612: self.simulator.threads[thread_id] once the list has
\* been cleared raises IndexError, which ends the worker
UiIndexError(t) ==
    /\ \/ upc[t] = "call" /\ wpc[t] = "idle"
       \/ upc[t] \in {"sleep608", "signal612"}
    /\ t \notin registry
    /\ upc' = [upc EXCEPT ![t] = "dead"]
    /\ UNCHANGED <<state, hist_last>>
    /\ UNCHANGED semVars
    /\ UNCHANGED monVars
    /\ UNCHANGED <<drvVars, wk, uiVars>>

\* lines 641-644: the Pause button, shown while the simulation runs
Pause ==
    /\ phase = "RUNNING"
    /\ phase' = "PAUSED"
    /\ UNCHANGED <<state, hist_last, upc>>
    /\ UNCHANGED <<current_time, registry, progress, ci, semClass>>
    /\ UNCHANGED semVars
    /\ UNCHANGED monVars
    /\ UNCHANGED <<drvVars, wk>>

\* lines 636-638: the Resume button
Resume ==
    /\ phase = "PAUSED"
    /\ phase' = "RUNNING"
    /\ UNCHANGED <<state, hist_last, upc>>
    /\ UNCHANGED <<current_time, registry, progress, ci, semClass>>
    /\ UNCHANGED semVars
    /\ UNCHANGED monVars
    /\ UNCHANGED <<drvVars, wk>>

\* lines 646-650: stop_simulation terminates every thread that is not
\* TERMINATED, with a terminal entry in its history
Stop ==
    /\ is_running
    /\ phase' = "STOPPED"
    /\ state' = [t \in Threads |-> IF t \in registry THEN "TERMINATED" ELSE state[t]]
    /\ hist_last' = [t \in Threads |->
                       IF t \in registry THEN "TERMINATED" ELSE hist_last[t]]
    /\ UNCHANGED <<current_time, registry, progress, ci, semClass, upc>>
    /\ UNCHANGED semVars
    /\ UNCHANGED monVars
    /\ UNCHANGED <<drvVars, wk>>

\* lines 652-667: reset_simulation clears the owned collections and returns
\* the clock and the phase to their initial values; the update_ui of line 667
\* then finds is_running false and leaves the clock as it is
Reset ==
    /\ model = "ui"
    /\ phase' = "STOPPED"
    /\ current_time' = 0
    /\ registry' = {}
    /\ UNCHANGED <<state, hist_last, upc, progress, ci, semClass>>
    /\ UNCHANGED semVars
    /\ UNCHANGED monVars
    /\ UNCHANGED <<drvVars, wk>>

\* lines 378-379 without the test of is_running
UpdateUIAlways ==
    /\ model = "ui"
    /\ current_time < MaxTicks
    /\ current_time' = current_time + 1
    /\ UNCHANGED <<state, hist_last, upc>>
    /\ UNCHANGED <<phase, registry, progress, ci, semClass>>
    /\ UNCHANGED semVars
    /\ UNCHANGED monVars
    /\ UNCHANGED <<drvVars, wk>>

\* lines 374-380, called every 100 ms (lines 357-364); the clock is counted
\* in steps of 0.1 s
UpdateUI ==
    /\ is_running
    /\ current_time < MaxTicks
    /\ current_time' = current_time + 1
    /\ UNCHANGED <<state, hist_last, upc>>
    /\ UNCHANGED <<phase, registry, progress, ci, semClass>>
    /\ UNCHANGED semVars
    /\ UNCHANGED monVars
    /\ UNCHANGED <<drvVars, wk>>

\* the window is open, nothing started: thread_count and semaphore_value are
\* the values of the spinboxes (from 1), the semaphore is of either class
InitUI ==
    \E n \in 1..UiThreads, v \in 1..MaxInitCount,
       c \in {"synchronization", "simulator"} :
        /\ state = [t \in 0..(n - 1) |-> "NEW"]
        /\ count = [s \in {0} |-> v]
        /\ queue = [s \in {0} |-> <<>>]
        /\ semLock = [s \in {0} |-> None]
        /\ msg_queue = <<>>
        /\ sink = FALSE
        /\ gate = [t \in 0..(n - 1) |-> 0]
        /\ wpc = [t \in 0..(n - 1) |-> "idle"]
        /\ InitMonitorIdle(0..(n - 1))
        /\ InitHistory(0..(n - 1))
        /\ model = "ui"
        /\ mainpc = "none"
        /\ mi = 0
        /\ wk = [t \in 0..(n - 1) |-> "none"]
        /\ phase = "STOPPED"
        /\ current_time = 0
        /\ registry = {}
        /\ progress = [t \in 0..(n - 1) |-> 0]
        /\ ci = [t \in 0..(n - 1) |-> 0]
        /\ semClass = c
        /\ upc = [t \in 0..(n - 1) |-> "none"]

NextUI ==
    \/ StartSimulation
    \/ \E t \in Threads : WaitReady(t)
    \/ \E t \in Threads : WaitLock(t)
    \/ \E t \in Threads : WaitCheck(t)
    \/ \E t \in Threads : WaitGrant(t)
    \/ \E t \in Threads : WaitBlock(t)
    \/ \E t \in Threads : LoopTest(t)
    \/ \E t \in Threads : Backoff(t)
    \/ \E t \in Threads : CritTest(t)
    \/ \E t \in Threads : CritWork(t)
    \/ \E t \in Threads : UiSignal(t)
    \/ \E t \in Threads : UiIndexError(t)
    \/ Pause
    \/ Resume
    \/ Stop
    \/ Reset
    \/ UpdateUI

SpecUI == InitUI /\ [][NextUI]_vars

\* the steps of the worker that runs thread_function for thread t
UiWorker(t) ==
    /\ t \in Threads
    /\ \/ WaitReady(t) \/ WaitLock(t) \/ WaitCheck(t) \/ WaitGrant(t)
       \/ WaitBlock(t) \/ LoopTest(t) \/ Backoff(t) \/ CritTest(t)
       \/ CritWork(t) \/ UiSignal(t) \/ UiIndexError(t)

\* every worker is a thread of its own, lines 614-631: it keeps being
\* scheduled; the buttons are pressed or not
FairSpecUI == SpecUI /\ \A t \in 0..(UiThreads - 1) : WF_vars(UiWorker(t))

(***************************************************************************)
(* C14: wait reports its outcome: the value returned is truthy exactly     *)
(* when wait decremented count and set the thread RUNNING, and falsy when  *)
(* it enqueued the thread, so the loop `while not sem.wait(t)` is left     *)
(* after the first successful wait.                                        *)
(***************************************************************************)
C14_WaitReportsOutcome ==
    [][\A t \in Threads :
          /\ (model = "ui" /\ WaitGrant(t)) => Truthy(upc'[t])
          /\ (model = "ui" /\ WaitBlock(t)) => ~Truthy(upc'[t])
          /\ (Truthy(upc[t]) /\ LoopTest(t)) => InCritical(t)']_vars

(***************************************************************************)
(* C18: stop_simulation completes and leaves every registered thread       *)
(* TERMINATED, also the threads in a wait queue and the workers that are   *)
(* still polling; nothing the workers do afterwards changes that.          *)
(***************************************************************************)
Stopped == model = "ui" /\ phase = "STOPPED" /\ registry # {}

C19_PauseSuspendsWorkers ==
    [][/\ (phase = "RUNNING" /\ phase' = "PAUSED") => state' = state
       /\ phase = "PAUSED" =>
            /\ progress' = progress
            /\ \A t \in Threads : InCritical(t) => InCritical(t)'
            /\ \A t \in Threads : ~UiSignal(t)]_vars

(***************************************************************************)
(* C20: current_time changes only while the phase is RUNNING, and then it  *)
(* increases; every step taken while PAUSED or STOPPED leaves it as it is, *)
(* except reset, which sets it to zero.                                    *)
(***************************************************************************)
C20_ClockOnlyWhileRunning ==
    [][\/ current_time' = current_time
       \/ phase = "RUNNING" /\ current_time' > current_time
       \/ Reset /\ current_time' = 0]_vars

(***************************************************************************)
(* get_simulation_stats: the number of registered threads per state, and   *)
(* the number of registered threads                                        *)
(***************************************************************************)
thread_states(s) == Cardinality({t \in registry : state[t] = s})
total_threads == Cardinality(registry)

ResetState ==
    /\ phase = "STOPPED"
    /\ current_time = 0
    /\ total_threads = 0
    /\ \A s \in ThreadState : thread_states(s) = 0

\* a simulation was started and has been reset since
WasReset == model = "ui" /\ registry = {} /\ \E t \in Threads : upc[t] # "none"

IsCreated(e) == e.type = "semaphore_created"

C22_OneEventPerOperation ==
    /\ [](sink => /\ Len(SelectSeq(msg_queue, IsCreated)) = 1
                  /\ IsCreated(msg_queue[1]))
    /\ [][sink =>
            \A s \in Sems :
               IF count'[s] = count[s] - 1 /\ queue'[s] = queue[s]
               THEN \E t \in Threads :
                       /\ wpc[t] = "w24" /\ wpc'[t] = "idle"
                       /\ msg_queue' = Append(msg_queue, WaitEvent(t, s, TRUE))
               ELSE IF count'[s] = count[s] /\ Len(queue'[s]) = Len(queue[s]) + 1
               THEN \E t \in Threads :
                       /\ wpc[t] = "w34" /\ wpc'[t] = "idle"
                       /\ queue'[s] = Append(queue[s], t)
                       /\ msg_queue' = Append(msg_queue, WaitEvent(t, s, FALSE))
               ELSE IF count'[s] = count[s] /\ Len(queue'[s]) = Len(queue[s]) - 1
               THEN /\ queue'[s] = Tail(queue[s])
                    /\ msg_queue' = Append(msg_queue, SignalEvent(s, Head(queue[s])))
               ELSE IF count'[s] = count[s] + 1 /\ queue'[s] = queue[s]
               THEN msg_queue' = Append(msg_queue, SignalEvent(s, None))
               ELSE /\ count'[s] = count[s] /\ queue'[s] = queue[s]
                    /\ msg_queue' = msg_queue]_vars

\* the sink holds the creation, a granted wait, an enqueueing wait, a signal
\* that woke the waiter and a signal that found nobody, in this order
C22_Witness ==
    /\ sink
    /\ Len(msg_queue) = 5
    /\ IsWait(msg_queue[2]) /\ msg_queue[2].success
    /\ IsEnqueue(msg_queue[3])
    /\ IsWake(msg_queue[4]) /\ msg_queue[4].thread_id = msg_queue[3].thread_id
    /\ msg_queue[5] = SignalEvent(0, None)

(***************************************************************************)
(* C23: no operation holds the lock of more than one primitive, and no     *)
(* threads are deadlocked on the locks: a wait holds at most the lock of   *)
(* its own semaphore, and whoever holds a lock is inside the body of its   *)
(* operation and can take its next step at once, so it waits for no other  *)
(* lock and for no event while it holds one.                               *)
(***************************************************************************)
C23_NoLockDeadlock ==
    /\ \A t \in Threads : {s \in Sems : semLock[s] = t} \subseteq {gate[t]}
    /\ \A s \in Sems :
          semLock[s] # None =>
             /\ InBody(semLock[s])
             /\ ENABLED (\/ WaitCheck(semLock[s])
                         \/ WaitGrant(semLock[s])
                         \/ WaitBlock(semLock[s]))
    /\ mlock # None =>
          /\ mpc[mlock] \in {"e77", "e78", "e81"}
          /\ ENABLED (EnterCheck(mlock) \/ EnterWait(mlock) \/ EnterRun(mlock))

\* the lock of the semaphore and the lock of the monitor are held at the same
\* time, by two operations, while a third waits on the condition
C23_Witness ==
    /\ model = "none"
    /\ semLock[0] # None
    /\ mlock # None
    /\ \E t \in Threads : mpc[t] = "waiting"

(***************************************************************************)
(* C24: gate acquisition blocks: a thread whose wait was not granted and   *)
(* that is still in the wait queue starts no other wait on the gate, and   *)
(* is not admitted by the decrement branch of a repeated wait.             *)
(***************************************************************************)
C24_WaitBlocksCaller ==
    [][\A t \in Threads :
          (model = "ui" /\ Queued(t)) => ~WaitReady(t) /\ ~WaitGrant(t)]_vars

(***************************************************************************)
(* Admission read from the sink: a thread is admitted by a granted wait or *)
(* by the signal that pops it, and an admission ends with a signal.        *)
(***************************************************************************)
IsGrant(e) == e.type = "semaphore_wait" /\ e.success
IsSignal(e) == e.type = "semaphore_signal"

Admissions(k) ==
    Len(SelectSeq(SubSeq(msg_queue, 1, k), IsGrant))
        + Len(SelectSeq(SubSeq(msg_queue, 1, k), IsWake))

Releases(k) == Len(SelectSeq(SubSeq(msg_queue, 1, k), IsSignal))

\* every signal so far was called while an admission was outstanding
SignalsByAdmitted ==
    \A k \in 1..Len(msg_queue) :
        IsSignal(msg_queue[k]) => Releases(k - 1) < Admissions(k - 1)

HoldingAdmission == Admissions(Len(msg_queue)) - Releases(Len(msg_queue))

(***************************************************************************)
(* C25: on a semaphore created with count n whose users signal only after  *)
(* they were admitted, never more than n admissions are outstanding: the   *)
(* outstanding admissions and count add up to n, so a signal that hands    *)
(* its unit to a queued thread does not make it available to a wait too.   *)
(***************************************************************************)
C25_NoDoubleAdmission ==
    (sink /\ SignalsByAdmitted) =>
        /\ HoldingAdmission <= msg_queue[1].count
        /\ HoldingAdmission + count[0] = msg_queue[1].count

\* all n units are out, one of them handed over by a signal, and a later
\* wait found no unit
C25_Witness ==
    /\ sink
    /\ SignalsByAdmitted
    /\ msg_queue[1].count >= 1
    /\ HoldingAdmission = msg_queue[1].count
    /\ \E i, j \in 1..Len(msg_queue) :
          i < j /\ IsWake(msg_queue[i]) /\ IsEnqueue(msg_queue[j])

(***************************************************************************)
(* C26: many_to_many(n) has K = min(n, 3) gates, created with count 1, and *)
(* worker i uses gate i mod K.  For n >= 1 there is at least one gate and  *)
(* every worker's gate is one of the K gates; for n = 0 there is no gate   *)
(* and no worker, and the driver goes straight to its return.              *)
(***************************************************************************)
GateCount == IF num_threads < 3 THEN num_threads ELSE 3

C26_GateAssignment ==
    model = "many_to_many" =>
        /\ Sems = {g \in 0..2 : g < GateCount}
        /\ (mainpc = "start" /\ mi = 0) => \A g \in Sems : count[g] = 1
        /\ num_threads >= 1 =>
              /\ GateCount >= 1
              /\ \A t \in Threads :
                    /\ gate[t] \in Sems
                    /\ gate[t] = t % GateCount
        /\ num_threads = 0 =>
              /\ Threads = {}
              /\ mainpc # "returned" => ENABLED (StartDone \/ Return)

\* four workers on three gates: worker 3 is started on gate 0, beside worker 0
C26_Witness ==
    /\ model = "many_to_many"
    /\ num_threads = 4
    /\ Cardinality(Sems) = 3
    /\ gate[3] = 0
    /\ wk[0] # "unstarted" /\ wk[3] # "unstarted"

(***************************************************************************)
(* C27: a signal that finds the wait queue empty adds exactly 1 to count   *)
(* and changes no thread's state and not the queue; count has no upper     *)
(* bound: k such signals on a fresh Semaphore(n) leave count = n + k.      *)
(***************************************************************************)
OnlyIdleSignals ==
    \A i \in 2..Len(msg_queue) : msg_queue[i] = SignalEvent(0, None)

C27_SignalIncrements ==
    /\ []((sink /\ OnlyIdleSignals)
             => count[0] = msg_queue[1].count + Len(msg_queue) - 1)
    /\ [][\A s \in Sems :
             (Signal(s) /\ queue[s] = <<>>) =>
                 /\ count'[s] = count[s] + 1
                 /\ state' = state
                 /\ queue' = queue]_vars

\* MaxEvents signals on a semaphore created with MaxInitCount
C27_Witness ==
    /\ sink
    /\ OnlyIdleSignals
    /\ Len(msg_queue) = MaxEvents + 1
    /\ count[0] = MaxInitCount + MaxEvents
    /\ \A t \in Threads : state[t] = "NEW"

(***************************************************************************)
(* C28: whenever count is positive the wait queue is empty: no thread is   *)
(* left queued while a unit is available.                                  *)
(***************************************************************************)
C28_NoWaiterWhileAvailable ==
    \A s \in Sems : count[s] > 0 => queue[s] = <<>>

\* a unit is available again after a thread had been queued and woken
C28_Witness ==
    /\ sink
    /\ count[0] > 0
    /\ queue[0] = <<>>
    /\ \E i \in 1..Len(msg_queue) : IsWake(msg_queue[i])
    /\ LastEvent = SignalEvent(0, None)

(***************************************************************************)
(* C29: a thread is in a semaphore's wait queue at most once, also when    *)
(* the workload of the UI polls wait again after a non-success.            *)
(***************************************************************************)
C29_QueuedAtMostOnce ==
    \A s \in Sems : \A i, j \in 1..Len(queue[s]) :
        queue[s][i] = queue[s][j] => i = j

(***************************************************************************)
(* C30: every driver terminates for every num_threads >= 0: under fair     *)
(* scheduling the driver returns, and by then every worker has passed its  *)
(* gate, finished and been joined, and every gate is back at count 1 with  *)
(* an empty wait queue.                                                    *)
(***************************************************************************)
C30_DriversTerminate ==
    /\ <>(mainpc = "returned")
    /\ [](mainpc = "returned" =>
            /\ \A t \in Threads : wk[t] = "done"
            /\ \A s \in Sems : count[s] = 1 /\ queue[s] = <<>>)

====
